---- MODULE Spec2Model ----
(***************************************************************************)
(* Model of Multi_language_parser/File_parser.py (RepoElementParser) and   *)
(* of language_build.get_parser.                                           *)
(*                                                                         *)
(* A text (bytes decoded as UTF-8) is a sequence of one-character strings. *)
(* A syntax tree is the sequence of its nodes in the order the external    *)
(* parser lists them; a node is [type, text, parent], parent being the     *)
(* index of the parent node and 0 for the root (node.parent is None).      *)
(* node.children of node i is the ascending list of the nodes whose parent *)
(* is i.  The recursion of the two traversals is an explicit stack.        *)
(***************************************************************************)
EXTENDS Integers, Sequences, FiniteSets, TLC

(***************************************************************************)
(* Texts                                                                   *)
(***************************************************************************)
T_Foo == <<"F", "o", "o">>
T_bar == <<"b", "a", "r">>
T_Jar == <<"J", "a", "r">>
T_x == <<"x">>
T_print == <<"p", "r", "i", "n", "t">>
T_list == <<"l", "i", "s", "t">>
T_this == <<"t", "h", "i", "s">>
T_init == <<"_", "_", "i", "n", "i", "t", "_", "_">>
T_one == <<"1">>
T_docStr == <<"\"", "d", "o", "c", "\"">>
T_doc == <<"d", "o", "c">>
T_emptyStr == <<"\"", "\"">>
T_noteComment == <<"#", " ", "n", "o", "t", "e">>
T_note == <<"n", "o", "t", "e">>
T_slashComment == <<"/", "/", " ", "n", "o", "t", "e">>
T_float == <<"1", ".">>

\* File_parser.py:18-29
std_lib_identifiers ==
    { <<"c","o","u","t">>, <<"e","n","d","l">>, <<"c","i","n">>, <<"c","e","r","r">>,
      <<"c","l","o","g">>, <<"s","t","r","i","n","g">>, <<"v","e","c","t","o","r">>,
      <<"m","a","p">>, <<"s","e","t">>, <<"l","i","s","t">>,
      <<"m","a","k","e","_","u","n","i","q","u","e">>,
      <<"m","a","k","e","_","s","h","a","r","e","d">>,
      <<"u","n","i","q","u","e","_","p","t","r">>,
      <<"s","h","a","r","e","d","_","p","t","r">>,
      <<"p","r","i","n","t","f">>, <<"s","c","a","n","f">>, <<"m","a","l","l","o","c">>,
      <<"f","r","e","e">>, <<"N","U","L","L">>,
      <<"s","t","d","o","u","t">>, <<"s","t","d","i","n">>, <<"s","t","d","e","r","r">>,
      <<"p","r","i","n","t">>, <<"i","n","p","u","t">>, <<"r","a","n","g","e">>,
      <<"l","e","n">>, <<"s","t","r">>, <<"i","n","t">>, <<"f","l","o","a","t">>,
      <<"d","i","c","t">>, <<"t","u","p","l","e">>,
      <<"c","o","n","s","o","l","e">>, <<"d","o","c","u","m","e","n","t">>,
      <<"w","i","n","d","o","w">>, <<"r","e","q","u","i","r","e">>,
      <<"m","o","d","u","l","e">>, <<"e","x","p","o","r","t","s">>,
      <<"i","m","p","o","r","t">>, <<"f","r","o","m">>, <<"a","s">> }

\* the reserved words of Python alone
ReservedDunders ==
    { <<"_","_","n","a","m","e","_","_">>, <<"_","_","m","a","i","n","_","_">>,
      <<"_","_","f","i","l","e","_","_">> }

\* no reserved word at all
ReservedNone == {}

\* File_parser.py:141 and 189: the names kept out of identifiers and variables
ReservedNames ==
    { <<"_","_","n","a","m","e","_","_">>, <<"_","_","m","a","i","n","_","_">>,
      <<"_","_","f","i","l","e","_","_">>, <<"t","h","i","s">>,
      <<"s","u","p","e","r">> }

\* str.lstrip(chars) / str.rstrip(chars) / str.strip(chars)
RECURSIVE LStrip(_, _)
LStrip(s, cs) ==
    IF s # <<>> /\ Head(s) \in cs THEN LStrip(Tail(s), cs) ELSE s

RECURSIVE RStrip(_, _)
RStrip(s, cs) ==
    IF s # <<>> /\ s[Len(s)] \in cs THEN RStrip(SubSeq(s, 1, Len(s) - 1), cs) ELSE s

Strip(s, cs) == RStrip(LStrip(s, cs), cs)

\* the characters str.strip() without argument removes
Whitespace == {" ", "\t", "\n", "\r"}

\* File_parser.py:194  node_text.strip('"\'')
StripQuotes(s) == Strip(s, {"\"", "'"})

\* File_parser.py:203  node_text.lstrip('#').strip()
StripComment(s) == Strip(LStrip(s, {"#"}), Whitespace)

(***************************************************************************)
(* Syntax trees                                                            *)
(***************************************************************************)
\* a loop over the children that leaves the first one out
ChildrenButFirst(t, i) ==
    LET c == SelectSeq([k \in 1..Len(t) |-> k], LAMBDA j : t[j].parent = i)
    IN IF c = <<>> THEN c ELSE Tail(c)

\* a loop over the children from the last to the first
ChildrenReversed(t, i) ==
    LET c == SelectSeq([k \in 1..Len(t) |-> k], LAMBDA j : t[j].parent = i)
    IN [k \in 1..Len(c) |-> c[Len(c) + 1 - k]]

\* node.children: the children of node i of tree t, in order
Children(t, i) == SelectSeq([k \in 1..Len(t) |-> k], LAMBDA j : t[j].parent = i)

\* a loop without its break: the last child of the type wins
LastChildOfType(t, i, ty) ==
    LET c == SelectSeq([k \in 1..Len(t) |-> k],
                       LAMBDA j : t[j].parent = i /\ t[j].type = ty)
    IN IF c = <<>> THEN 0 ELSE c[Len(c)]

\* "for child in node.children: if child.type == ty: ...; break":
\* the first child of node i with the type ty, 0 when there is none
FirstChildOfType(t, i, ty) ==
    LET c == SelectSeq(Children(t, i), LAMBDA j : t[j].type = ty)
    IN IF c = <<>> THEN 0 ELSE Head(c)

\* builders of a tree as the external parser hands it over
Shift(sub, off) ==
    [k \in 1..Len(sub) |->
        [sub[k] EXCEPT !.parent = IF @ = 0 THEN 1 ELSE @ + off]]

RECURSIVE Place(_, _)
Place(kids, off) ==
    IF kids = <<>> THEN <<>>
    ELSE Shift(Head(kids), off) \o Place(Tail(kids), off + Len(Head(kids)))

Mk(type, text, kids) ==
    <<[type |-> type, text |-> text, parent |-> 0]>> \o Place(kids, 1)

Leaf(type, text) == Mk(type, text, <<>>)

(***************************************************************************)
(* RepoElementParser: the predicates                                       *)
(***************************************************************************)
CommentTypes == {"comment", "line_comment"}

\* a denylist that is never consulted
NoDenylist(name) == FALSE

\* File_parser.py:100-102
_is_std_lib_identifier(name) == name \in std_lib_identifiers

\* a test that takes any child that is not a comment for the first one
AnyNonCommentIs(t, p, n) ==
    \E j \in 1..Len(t) :
        t[j].parent = p /\ t[j].type \notin CommentTypes /\ j = n

\* a test of the first child, comments counted
FirstChildIs(t, p, n) ==
    \E j \in 1..Len(t) :
        /\ t[j].parent = p
        /\ \A b \in 1..(j - 1) : t[b].parent # p
        /\ j = n

\* File_parser.py:87-89 and 94-96: the loop returns at the first child that
\* is no comment; without one it falls through to "return False"
FirstNonCommentIs(t, p, n) ==
    LET c == SelectSeq(Children(t, p), LAMBDA j : t[j].type \notin CommentTypes)
    IN c # <<>> /\ Head(c) = n

\* File_parser.py:77-98; n is a node of the tree (n # 0)
_is_docstring(t, n) ==
    IF t[n].type # "expression_statement" THEN FALSE
    ELSE LET parent == t[n].parent IN
         IF parent = 0 THEN FALSE
         ELSE IF t[parent].type = "module" THEN FirstNonCommentIs(t, parent, n)
         ELSE IF t[parent].type = "block" THEN
              LET grand_parent == t[parent].parent IN
              IF grand_parent = 0
                 \/ t[grand_parent].type \notin {"class_definition", "function_definition"}
              THEN FALSE
              ELSE FirstNonCommentIs(t, parent, n)
         ELSE FALSE

\* a test that looks for the type among all the nodes of the tree
AnyNodeOfType(t, p, ty) == \E j \in 1..Len(t) : t[j].type = ty

\* a test of the siblings that never finds the type
NoChildOfType(t, p, ty) == FALSE

\* "any(child.type == ty for child in node.parent.children)"
AnyChildOfType(t, p, ty) == \E j \in 1..Len(t) : t[j].parent = p /\ t[j].type = ty

\* the type of the parent of node i, "" when it has none
ParentType(t, i) == IF t[i].parent = 0 THEN "" ELSE t[t[i].parent].type

\* the type of the grandparent of node i, "" when it has none
GrandParentType(t, i) ==
    IF t[i].parent = 0 \/ t[t[i].parent].parent = 0 THEN ""
    ELSE t[t[t[i].parent].parent].type

\* File_parser.py:126-158
_is_variable(t, i, class_names) ==
    LET name == t[i].text
        pt == ParentType(t, i)
        gt == GrandParentType(t, i)
        p == t[i].parent
    IN
    IF t[i].type # "identifier" THEN FALSE
    ELSE IF _is_std_lib_identifier(name) THEN FALSE
    ELSE IF class_names # {} /\ name \in class_names THEN FALSE
    ELSE IF pt \in {"function_definition", "class_definition",
                    "constructor_declaration",
                    "constructor_or_destructor_definition"} THEN FALSE
    ELSE IF pt = "call" THEN FALSE
    ELSE IF pt \in {"import_statement", "import_from_statement"} THEN FALSE
    ELSE IF name \in ReservedNames THEN FALSE
    ELSE IF pt = "method_definition" THEN FALSE
    ELSE IF pt = "function_definition" THEN FALSE
    ELSE IF pt = "class_definition" THEN FALSE
    ELSE IF gt = "class_definition" /\ pt = "block"
            /\ AnyChildOfType(t, p, "method_definition") THEN FALSE
    ELSE IF gt = "function_definition" /\ pt = "block"
            /\ AnyChildOfType(t, p, "method_definition") THEN FALSE
    ELSE IF gt = "class_definition" /\ pt = "block"
            /\ AnyChildOfType(t, p, "function_definition") THEN FALSE
    ELSE TRUE

(***************************************************************************)
(* RepoElementParser: the effect of one visit of each traversal            *)
(***************************************************************************)
SetKeys == {"identifiers", "variables", "functions", "classes"}
ListKeys == {"literals", "comments", "docstrings"}

\* File_parser.py:31-39 (and 283-291 for the repository's buckets)
EmptyElements ==
    [identifiers |-> {}, literals |-> <<>>, variables |-> {}, comments |-> <<>>,
     docstrings |-> <<>>, functions |-> {}, classes |-> {}]

\* buckets that are not emptied between two files
KeepElements(el) == el

\* File_parser.py:230: a fresh container of the same kind under every key
ResetElements(el) ==
    [k \in DOMAIN el |-> IF k \in SetKeys THEN {} ELSE <<>>]

\* a pass 1 that knows the class declarations and not the struct ones
ClassNameChildOfClasses(t, i) ==
    IF t[i].type \in {"class_definition", "class_declaration"}
    THEN FirstChildOfType(t, i, "identifier")
    ELSE 0

\* the child carrying the declared name of a class/struct node, 0 without one
\* (File_parser.py:107-121 and 165-183)
ClassNameChild(t, i) ==
    IF t[i].type \in {"class_definition", "class_declaration"}
    THEN FirstChildOfType(t, i, "identifier")
    ELSE IF t[i].type \in {"class_specifier", "struct_specifier"}
    THEN FirstChildOfType(t, i, "type_identifier")
    ELSE 0

\* a pass 1 that collects nothing
CollectNothing(t, i, class_names) == class_names

\* File_parser.py:104-121: what visiting node i adds to class_names
CollectNode(t, i, class_names) ==
    LET c == ClassNameChild(t, i)
    IN IF c # 0 THEN class_names \cup {t[c].text} ELSE class_names

\* a class rule that does not consult the denylist
ExtractClassUnfiltered(t, i, el) ==
    LET c == ClassNameChild(t, i)
    IN IF c # 0
       THEN [el EXCEPT !.classes = @ \cup {t[c].text},
                       !.identifiers = @ \cup {t[c].text}]
       ELSE el

\* File_parser.py:165-183
ExtractClass(t, i, el) ==
    LET c == ClassNameChild(t, i)
    IN IF c # 0 /\ ~_is_std_lib_identifier(t[c].text)
       THEN [el EXCEPT !.classes = @ \cup {t[c].text},
                       !.identifiers = @ \cup {t[c].text}]
       ELSE el

\* File_parser.py:186-192
ExtractIdentifier(t, i, el, class_names) ==
    LET name == t[i].text
    IN IF _is_std_lib_identifier(name) THEN el
       ELSE LET e1 == IF name \notin ReservedNames
                      THEN [el EXCEPT !.identifiers = @ \cup {name}]
                      ELSE el
            IN IF _is_variable(t, i, class_names)
               THEN [e1 EXCEPT !.variables = @ \cup {name}]
               ELSE e1

\* a docstring that is listed among the literals as well, and an empty
\* string that is kept
StringInBoth(t, i, el) ==
    LET text == StripQuotes(t[i].text)
    IN IF _is_docstring(t, t[i].parent)
       THEN [el EXCEPT !.docstrings = Append(@, text),
                       !.literals = Append(@, text)]
       ELSE [el EXCEPT !.literals = Append(@, text)]

\* File_parser.py:193-199; the string node has a parent
ExtractString(t, i, el) ==
    LET text == StripQuotes(t[i].text)
    IN IF text = <<>> THEN el
       ELSE IF _is_docstring(t, t[i].parent)
            THEN [el EXCEPT !.docstrings = Append(@, text)]
            ELSE [el EXCEPT !.literals = Append(@, text)]

\* a number rule that trims quotes and a trailing point like a string's text
ExtractNumberTrimmed(t, i, el) ==
    [el EXCEPT !.literals = Append(@, Strip(t[i].text, {"\"", "'", "."}))]

\* File_parser.py:200-201
ExtractNumber(t, i, el) == [el EXCEPT !.literals = Append(@, t[i].text)]

\* a comment kept with its marker
ExtractCommentRaw(t, i, el) ==
    [el EXCEPT !.comments = Append(@, t[i].text)]

\* File_parser.py:202-204
ExtractComment(t, i, el) ==
    [el EXCEPT !.comments = Append(@, StripComment(t[i].text))]

\* a function rule that takes __init__ for a function like any other
ExtractFunctionWithInit(t, i, el) ==
    LET c == FirstChildOfType(t, i, "identifier")
    IN IF c # 0 /\ ~_is_std_lib_identifier(t[c].text)
       THEN [el EXCEPT !.functions = @ \cup {t[c].text},
                       !.identifiers = @ \cup {t[c].text}]
       ELSE el

\* a function rule that fills 'functions' alone
ExtractFunctionOnly(t, i, el) ==
    LET c == FirstChildOfType(t, i, "identifier")
    IN IF c # 0 /\ ~_is_std_lib_identifier(t[c].text) /\ t[c].text # T_init
       THEN [el EXCEPT !.functions = @ \cup {t[c].text}]
       ELSE el

\* File_parser.py:205-212
ExtractFunction(t, i, el) ==
    LET c == FirstChildOfType(t, i, "identifier")
    IN IF c # 0 /\ ~_is_std_lib_identifier(t[c].text) /\ t[c].text # T_init
       THEN [el EXCEPT !.functions = @ \cup {t[c].text},
                       !.identifiers = @ \cup {t[c].text}]
       ELSE el

StringTypes == {"string_literal", "string"}
NumberTypes == {"number_literal", "integer", "float"}
FunctionTypes == {"function_definition", "constructor_declaration",
                  "constructor_or_destructor_definition", "method_definition"}

\* File_parser.py:196: _is_docstring(node.parent) reads None.type when the
\* string node is the root
ExtractRaises(t, i) ==
    t[i].type \in StringTypes /\ StripQuotes(t[i].text) # <<>> /\ t[i].parent = 0

\* a rule table with a last branch that keeps the text of any other leaf as
\* an identifier
ExtractNodeOrText(t, i, el, class_names) ==
    LET e1 == ExtractClass(t, i, el)
        ty == t[i].type
    IN IF ty = "identifier" THEN ExtractIdentifier(t, i, e1, class_names)
       ELSE IF ty \in StringTypes THEN ExtractString(t, i, e1)
       ELSE IF ty \in NumberTypes THEN ExtractNumber(t, i, e1)
       ELSE IF ty \in CommentTypes THEN ExtractComment(t, i, e1)
       ELSE IF ty \in FunctionTypes THEN ExtractFunction(t, i, e1)
       ELSE IF t[i].text # <<>>
       THEN [e1 EXCEPT !.identifiers = @ \cup {t[i].text}]
       ELSE e1

\* File_parser.py:161-212: what visiting node i does to self.elements
ExtractNode(t, i, el, class_names) ==
    LET e1 == ExtractClass(t, i, el)
        ty == t[i].type
    IN IF ty = "identifier" THEN ExtractIdentifier(t, i, e1, class_names)
       ELSE IF ty \in StringTypes THEN ExtractString(t, i, e1)
       ELSE IF ty \in NumberTypes THEN ExtractNumber(t, i, e1)
       ELSE IF ty \in CommentTypes THEN ExtractComment(t, i, e1)
       ELSE IF ty \in FunctionTypes THEN ExtractFunction(t, i, e1)
       ELSE e1

(***************************************************************************)
(* sorted(list(s)) of a set of texts: ascending by code point              *)
(***************************************************************************)
\* the characters the model's texts use, by ascending code point
UpperChars ==
    <<"A", "B", "C", "D", "E", "F", "G", "H", "I", "J", "K", "L", "M",
      "N", "O", "P", "Q", "R", "S", "T", "U", "V", "W", "X", "Y", "Z">>

LowerChars ==
    <<"a", "b", "c", "d", "e", "f", "g", "h", "i", "j", "k", "l", "m",
      "n", "o", "p", "q", "r", "s", "t", "u", "v", "w", "x", "y", "z">>

CharOrder ==
    <<"\t", "\n", "\r", " ", "\"", "#", "'", "*", ".", "/", "1", "2">>
    \o UpperChars \o <<"_">> \o LowerChars

Code(c) == CHOOSE k \in 1..Len(CharOrder) : CharOrder[k] = c

RECURSIVE TextLess(_, _)
TextLess(a, b) ==
    IF b = <<>> THEN FALSE
    ELSE IF a = <<>> THEN TRUE
    ELSE IF Head(a) = Head(b) THEN TextLess(Tail(a), Tail(b))
    ELSE Code(Head(a)) < Code(Head(b))

RECURSIVE Sorted(_)
Sorted(S) ==
    IF S = {} THEN <<>>
    ELSE LET m == CHOOSE x \in S : \A y \in S \ {x} : TextLess(x, y)
         IN <<m>> \o Sorted(S \ {m})

Range(q) == {q[k] : k \in 1..Len(q)}

\* a result that leaves out the key of an empty list
FileElementsNonEmpty(el) ==
    LET all == [identifiers |-> Sorted(el.identifiers), literals |-> el.literals,
                variables |-> Sorted(el.variables), comments |-> el.comments,
                docstrings |-> el.docstrings, functions |-> Sorted(el.functions),
                classes |-> Sorted(el.classes)]
    IN [k \in {k \in DOMAIN all : all[k] # <<>>} |-> all[k]]

\* File_parser.py:239-247
FileElements(el) ==
    [identifiers |-> Sorted(el.identifiers), literals |-> el.literals,
     variables |-> Sorted(el.variables), comments |-> el.comments,
     docstrings |-> el.docstrings, functions |-> Sorted(el.functions),
     classes |-> Sorted(el.classes)]

\* sets assigned instead of updated: the last file's names replace the rest
AggregateAssign(repo, elements) ==
    [k \in DOMAIN repo |->
        IF k \in SetKeys THEN Range(elements[k])
        ELSE repo[k] \o elements[k]]

\* lists that take a file's entries in front instead of at the end
AggregatePrepend(repo, elements) ==
    [k \in DOMAIN repo |->
        IF k \in SetKeys THEN repo[k] \cup Range(elements[k])
        ELSE elements[k] \o repo[k]]

\* File_parser.py:300-304: update() for the sets, extend() for the lists
Aggregate(repo, elements) ==
    [k \in DOMAIN repo |->
        IF k \in SetKeys THEN repo[k] \cup Range(elements[k])
        ELSE repo[k] \o elements[k]]

\* File_parser.py:307-315
FinalElements(repo) == FileElements(repo)

(***************************************************************************)
(* File names, extensions and the grammar registry                         *)
(***************************************************************************)
\* str.lower()
LowerChar(c) ==
    IF \E k \in 1..Len(UpperChars) : UpperChars[k] = c
    THEN LowerChars[CHOOSE k \in 1..Len(UpperChars) : UpperChars[k] = c]
    ELSE c

Lower(s) == [k \in 1..Len(s) |-> LowerChar(s[k])]

\* os.path.splitext(p)[1] of a file name: from the last dot on, unless only
\* dots precede it
SplitExt(name) ==
    LET dots == {k \in 1..Len(name) : name[k] = "."}
        d == IF dots = {} THEN 0 ELSE CHOOSE k \in dots : \A j \in dots : j <= k
    IN IF d > 0 /\ (\E k \in 1..(d - 1) : name[k] # ".")
       THEN SubSeq(name, d, Len(name))
       ELSE <<>>

\* File_parser.py:12
supported_extensions ==
    { <<".", "p", "y">>, <<".", "j", "a", "v", "a">>, <<".", "c", "p", "p">>,
      <<".", "c">>, <<".", "j", "s">> }

\* language_build.py:28-34: extension -> language name
PARSERS ==
    (<<".", "c">> :> "c") @@ (<<".", "c", "p", "p">> :> "cpp")
    @@ (<<".", "p", "y">> :> "python") @@ (<<".", "j", "s">> :> "javascript")
    @@ (<<".", "j", "a", "v", "a">> :> "java")

\* language_build.py:37-44: get_parser raises ValueError for an extension
\* that is no key of PARSERS
GetParserRaises(ext) == ext \notin DOMAIN PARSERS

\* File_parser.py:65-74: the files of the listing that find_source_files keeps
IsSourceFile(f) ==
    /\ ".git" \notin Range(f.dir)
    /\ Lower(SplitExt(f.name)) \in supported_extensions

find_source_files(listing) ==
    LET kept == SelectSeq(listing, IsSourceFile)
    IN [k \in 1..Len(kept) |-> [dir |-> kept[k].dir, name |-> kept[k].name]]

(***************************************************************************)
(* Inputs: syntax trees as the grammars shape them, and repositories       *)
(***************************************************************************)
IdNode(n) == Leaf("identifier", n)
TypeIdNode(n) == Leaf("type_identifier", n)
StrNode(s) == Leaf("string", s)
IntNode(s) == Leaf("integer", s)
CommentNode(s) == Leaf("comment", s)
Inner(type, kids) == Mk(type, <<>>, kids)
ExprStmt(kid) == Inner("expression_statement", <<kid>>)

\* the node under classification
Focus ==
    { IdNode(T_Foo), IdNode(T_x), IdNode(T_print), IdNode(T_this), TypeIdNode(T_Foo),
      StrNode(T_docStr), StrNode(T_emptyStr), IntNode(T_one), CommentNode(T_noteComment),
      ExprStmt(StrNode(T_docStr)), ExprStmt(IdNode(T_x)),
      Inner("assignment", <<IdNode(T_x), IntNode(T_one)>>) }

\* its siblings to the left and to the right
SibBefore ==
    { <<>>, <<CommentNode(T_noteComment)>>, <<ExprStmt(StrNode(T_docStr))>>,
      <<CommentNode(T_noteComment), ExprStmt(StrNode(T_docStr)),
        ExprStmt(StrNode(T_docStr))>> }
SibAfter ==
    { <<>>, <<Inner("method_definition", <<IdNode(T_bar)>>)>>,
      <<Inner("function_definition", <<IdNode(T_init)>>)>> }

\* the node holding them ("" for none)
ParentKinds == {"", "block", "call", "import_statement", "class_body"}

\* the declaration around that, with its name child ("" for none)
OuterKinds ==
    { [type |-> "", name |-> <<>>],
      [type |-> "class_definition", name |-> <<IdNode(T_Foo)>>],
      [type |-> "class_definition", name |-> <<>>],
      [type |-> "class_definition", name |-> <<IdNode(T_list)>>],
      [type |-> "function_definition", name |-> <<IdNode(T_bar)>>],
      [type |-> "method_definition", name |-> <<IdNode(T_this)>>],
      [type |-> "class_declaration", name |-> <<IdNode(T_Foo)>>],
      [type |-> "class_specifier", name |-> <<TypeIdNode(T_Foo)>>] }

\* the foci that use the name x
FocusX ==
    { IdNode(T_x), ExprStmt(IdNode(T_x)),
      Inner("assignment", <<IdNode(T_x), IntNode(T_one)>>) }

\* a class named x declared after the focus
Post == <<Inner("class_definition", <<IdNode(T_x)>>)>>

\* the root node is the start symbol of the file's grammar
RootOf(outer) ==
    IF outer = "class_declaration" THEN "program"
    ELSE IF outer = "class_specifier" THEN "translation_unit"
    ELSE "module"

NameOf(root) ==
    IF root = "program" THEN <<"a", ".", "j", "s">>
    ELSE IF root = "translation_unit" THEN <<"a", ".", "c", "p", "p">>
    ELSE <<"a", ".", "p", "y">>

Wrap(type, kids) == IF type = "" THEN kids ELSE <<Inner(type, kids)>>

GenTree(g, p, b, f, a, q) ==
    Mk(RootOf(g.type), <<>>,
       (IF g.type = "" THEN Wrap(p, b \o <<f>> \o a)
        ELSE <<Inner(g.type, g.name \o Wrap(p, b \o <<f>> \o a))>>) \o q)

GenTrees ==
    { GenTree(g, p, b, f, a, <<>>) :
        g \in OuterKinds, p \in ParentKinds, b \in SibBefore, f \in Focus,
        a \in SibAfter }
    \cup
    { GenTree(g, p, b, f, a, Post) :
        g \in OuterKinds, p \in ParentKinds, b \in SibBefore, f \in FocusX,
        a \in SibAfter }

\* Scenario A: class Foo with docstring "doc", method bar assigning x = 1,
\* and a trailing comment
TreeA ==
    Mk("module", <<>>,
       << Inner("class_definition",
            << Leaf("class", <<"c", "l", "a", "s", "s">>), IdNode(T_Foo),
               Inner("block",
                 << ExprStmt(StrNode(T_docStr)),
                    Inner("function_definition",
                      << Leaf("def", <<"d", "e", "f">>), IdNode(T_bar),
                         Inner("parameters", <<>>),
                         Inner("block",
                           <<ExprStmt(Inner("assignment",
                                            <<IdNode(T_x), IntNode(T_one)>>))>>) >>) >>) >>),
          CommentNode(T_noteComment) >>)

\* Scenario B: print("doc")
TreeB ==
    Mk("module", <<>>,
       <<ExprStmt(Inner("call",
            <<IdNode(T_print), Inner("argument_list", <<StrNode(T_docStr)>>)>>))>>)

\* a JavaScript class with one method, between two equal comments
TreeJ ==
    Mk("program", <<>>,
       << CommentNode(T_noteComment),
          Inner("class_declaration",
            << IdNode(T_Jar),
               Inner("class_body",
                 <<Inner("method_definition",
                      <<Leaf("property_identifier", T_bar),
                        Inner("statement_block",
                          <<ExprStmt(Inner("assignment_expression",
                                <<IdNode(T_x), Leaf("number", T_one)>>))>>)>>)>>) >>),
          CommentNode(T_noteComment) >>)

SrcDir == <<"repo", "src">>
GitDir == <<"repo", ".git", "hooks">>
NoFault == [phase |-> "none", at |-> 0, exc |-> ""]

File(dir, name, tree, fault) ==
    [dir |-> dir, name |-> name, tree |-> tree, fault |-> fault]

\* the exceptions the environment can raise inside parse_file: open() and
\* read() (File_parser.py:224-225), parser.parse (227), and the at-th call of
\* a traversal (a text that is no UTF-8, the interpreter's recursion limit)
Faults(tree) ==
    { [phase |-> "read", at |-> 0, exc |-> "OSError"],
      [phase |-> "parse", at |-> 0, exc |-> "ValueError"] }
    \cup { [phase |-> ph, at |-> k, exc |-> e] :
             ph \in {"pass1", "pass2"}, k \in 1..Len(tree),
             e \in {"UnicodeDecodeError", "RecursionError"} }

\* the files the repositories of several files are made of
SmallFiles ==
    { File(SrcDir, <<"a", ".", "p", "y">>, TreeA, NoFault),
      File(SrcDir, <<"b", ".", "p", "y">>, TreeB, NoFault),
      File(SrcDir, <<"j", ".", "j", "s">>, TreeJ, NoFault),
      File(SrcDir, <<"c", ".", "P", "Y">>, TreeB, NoFault),
      File(SrcDir, <<"d", ".", "p", "y">>, TreeA,
           [phase |-> "read", at |-> 0, exc |-> "OSError"]),
      File(SrcDir, <<"e", ".", "j", "s">>, TreeJ,
           [phase |-> "pass2", at |-> 4, exc |-> "RecursionError"]),
      File(SrcDir, <<"f", ".", "p", "y">>, TreeA,
           [phase |-> "pass1", at |-> 3, exc |-> "UnicodeDecodeError"]),
      File(SrcDir, <<"g", ".", "t", "x", "t">>, TreeB, NoFault),
      File(GitDir, <<"h", ".", "p", "y">>, TreeA, NoFault) }

\* the longest listing made of SmallFiles
MaxFiles == 3

Injective(q) == \A i, j \in 1..Len(q) : i # j => q[i] # q[j]

SmallWalks ==
    UNION { {q \in [1..n -> SmallFiles] : Injective(q)} : n \in 1..MaxFiles }

\* two files of equal content
TwinWalks ==
    { << File(SrcDir, NameOf(t[1].type), t, NoFault),
         File(SrcDir, <<"z">> \o NameOf(t[1].type), t, NoFault) >> : t \in GenTrees }

\* a file that fails at any place, followed by one that does not
FaultWalks ==
    UNION { { << File(SrcDir, NameOf(t[1].type), t, f),
                 File(SrcDir, <<"b", ".", "p", "y">>, TreeB, NoFault) >> :
              f \in Faults(t) } : t \in {TreeA, TreeJ} }

\* an empty Python file
TreeEmpty == Mk("module", <<>>, <<>>)

\* a JavaScript file: a directive string first, then a function whose body
\* starts with a directive string
TreeDirective ==
    Mk("program", <<>>,
       << ExprStmt(StrNode(T_docStr)),
          Inner("function_declaration",
                << IdNode(T_bar),
                   Inner("statement_block", <<ExprStmt(StrNode(T_docStr))>>) >>) >>)

\* a Python function whose body holds a name and then a nested function
TreeNested ==
    Mk("module", <<>>,
       << Inner("function_definition",
                << IdNode(T_bar),
                   Inner("block",
                         << ExprStmt(IdNode(T_x)),
                            IdNode(T_x),
                            Inner("function_definition", <<IdNode(T_init)>>) >>) >>) >>)

\* a JavaScript file of three comments, two of them the same
TreeSlash ==
    Mk("program", <<>>,
       << CommentNode(T_slashComment), CommentNode(T_noteComment),
          CommentNode(T_slashComment) >>)

\* a Python file with a function named print, a function node without an
\* identifier child, a constructor node and a float
TreeFunctions ==
    Mk("module", <<>>,
       << Inner("function_definition", <<IdNode(T_print)>>),
          Inner("function_definition",
                << Leaf("def", <<"d", "e", "f">>),
                   Inner("block", <<ExprStmt(IdNode(T_x))>>) >>),
          Inner("constructor_declaration", <<IdNode(T_Foo), IdNode(T_bar)>>),
          Leaf("float", T_float) >>)

\* single files of unusual shape
EdgeWalks ==
    { <<File(SrcDir, NameOf(t[1].type), t, NoFault)>> :
      t \in {TreeEmpty, TreeDirective, TreeNested, TreeSlash, TreeFunctions} }

Walks == SmallWalks \cup TwinWalks \cup FaultWalks \cup EdgeWalks

(***************************************************************************)
(* analyze_repo and parse_file as a state machine                          *)
(***************************************************************************)
VARIABLES
    listing,        \* what os.walk finds in the cloned repository
    pc,             \* the place of the control flow
    source_files,   \* analyze_repo: the paths find_source_files returned
    idx,            \* analyze_repo: the place of the for loop in source_files
    lang_name,      \* parse_file: the language get_parser returned
    class_names,    \* parse_file: the set filled by pass 1
    stack,          \* the pending calls of the running traversal, next first
    elements,       \* self.elements
    visited,        \* the nodes pass 2 has classified in this file, in call order
    shared,         \* the place in returned of the result whose lists are the
                    \* list objects of self.elements, 0 when there is none
    result,         \* analyze_repo: what parse_file returned last
    returned,       \* every value parse_file returned, in call order
    file_analyses,  \* analyze_repo: the results kept
    repo_elements,  \* analyze_repo: the repository's buckets
    ret             \* what analyze_repo returned

vars == <<listing, pc, source_files, idx, lang_name, class_names, stack,
          elements, visited, shared, result, returned, file_analyses, repo_elements, ret>>

PathOf(f) == [dir |-> f.dir, name |-> f.name]

\* the file found at a path
FileAt(path) == CHOOSE f \in Range(listing) : PathOf(f) = path

NoPath == [dir |-> <<>>, name |-> <<>>]
NoResult == [success |-> FALSE, file_path |-> NoPath, error |-> "no call yet"]
NoReturn == [success |-> FALSE, error |-> "not returned"]

Init ==
    /\ listing \in Walks
    /\ pc = "clone"
    /\ source_files = <<>>
    /\ idx = 0
    /\ lang_name = ""
    /\ class_names = {}
    /\ stack = <<>>
    /\ elements = EmptyElements
    /\ visited = <<>>
    /\ shared = 0
    /\ result = NoResult
    /\ returned = <<>>
    /\ file_analyses = <<>>
    /\ repo_elements = EmptyElements
    /\ ret = NoReturn

\* a handler for the registry's ValueError only
CaughtValueErrorOnly(exc) == exc = "ValueError"

\* File_parser.py:256: the exceptions "except Exception" catches, of those
\* that can be raised inside the try block
Caught(exc) ==
    exc \in {"ValueError", "OSError", "UnicodeDecodeError", "RecursionError",
             "AttributeError"}

\* File_parser.py:257-261
Failure(path, text) == [success |-> FALSE, file_path |-> path, error |-> text]

\* File_parser.py:220 and 256-261: an exception raised inside parse_file is
\* turned into its return value if the handler catches it; otherwise it
\* leaves parse_file and analyze_repo, which has no handler
OnException(path, exc) ==
    IF Caught(exc)
    THEN [pc |-> "aggregate", result |-> Failure(path, exc)]
    ELSE [pc |-> "raised", result |-> result]

\* File_parser.py:265-271
CloneRepo ==
    /\ pc = "clone"
    /\ \E cloned \in BOOLEAN :
          IF cloned
          THEN pc' = "find" /\ ret' = ret
          ELSE /\ pc' = "returned"
               /\ ret' = [success |-> FALSE, error |-> "Failed to clone repository"]
    /\ UNCHANGED <<shared, visited, listing, source_files, idx, lang_name, class_names, stack,
                   elements, result, returned, file_analyses, repo_elements>>

\* File_parser.py:273-291
FindSourceFiles ==
    /\ pc = "find"
    /\ source_files' = find_source_files(listing)
    /\ IF source_files' = <<>>
       THEN /\ pc' = "returned"
            /\ ret' = [success |-> FALSE, error |-> "No supported source files found"]
            /\ idx' = idx
       ELSE /\ pc' = "parse_file"
            /\ ret' = ret
            /\ idx' = 1
    /\ file_analyses' = <<>>
    /\ repo_elements' = EmptyElements
    /\ UNCHANGED <<shared, visited, listing, lang_name, class_names, stack, elements, result,
                   returned>>

\* File_parser.py:241-244: the lists of the result are the list objects of
\* self.elements, so what is written to these shows in the result sh
Written(results, sh, el) ==
    IF sh = 0 THEN results
    ELSE [results EXCEPT ![sh].elements =
             [@ EXCEPT !.literals = el.literals, !.comments = el.comments,
                       !.docstrings = el.docstrings]]

\* buckets emptied in place: the list objects stay those of the last result
SharedAfterClear(sh) == sh

\* File_parser.py:230: the comprehension binds self.elements to new
\* containers, which no result holds
SharedAfterReset(sh) == 0

\* File_parser.py:218-234: up to the first call of pass 1
ParseFileBegin ==
    /\ pc = "parse_file"
    /\ LET path == source_files[idx]
           f == FileAt(path)
           ext == SplitExt(path.name)
           out == OnException(path, IF GetParserRaises(ext) THEN "ValueError"
                                    ELSE f.fault.exc)
       IN IF GetParserRaises(ext) \/ f.fault.phase \in {"read", "parse"}
          THEN /\ result' = out.result
               /\ pc' = out.pc
               /\ UNCHANGED <<lang_name, class_names, stack, elements, shared,
                              returned>>
          ELSE /\ lang_name' = PARSERS[ext]
               /\ elements' = ResetElements(elements)
               /\ shared' = SharedAfterReset(shared)
               /\ returned' = Written(returned, shared', elements')
               /\ class_names' = {}
               /\ stack' = <<1>>
               /\ pc' = "collect"
               /\ result' = result
    /\ visited' = <<>>
    /\ UNCHANGED <<listing, source_files, idx, file_analyses, repo_elements, ret>>

\* File_parser.py:104-124, one call of _collect_class_names; after the last
\* one, File_parser.py:237 calls pass 2 on the root
CollectStep ==
    /\ pc = "collect"
    /\ LET path == source_files[idx]
           f == FileAt(path)
           i == Head(stack)
           rest == Children(f.tree, i) \o Tail(stack)
           out == OnException(path, f.fault.exc)
       IN IF f.fault.phase = "pass1" /\ f.fault.at = i
          THEN /\ result' = out.result
               /\ pc' = out.pc
               /\ stack' = <<>>
               /\ class_names' = class_names
          ELSE /\ class_names' = CollectNode(f.tree, i, class_names)
               /\ stack' = IF rest = <<>> THEN <<1>> ELSE rest
               /\ pc' = IF rest = <<>> THEN "extract" ELSE "collect"
               /\ result' = result
    /\ UNCHANGED <<shared, visited, listing, source_files, idx, lang_name, elements, returned,
                   file_analyses, repo_elements, ret>>

\* File_parser.py:160-216, one call of _extract_elements
ExtractStep ==
    /\ pc = "extract"
    /\ LET path == source_files[idx]
           f == FileAt(path)
           i == Head(stack)
           rest == Children(f.tree, i) \o Tail(stack)
           faulty == f.fault.phase = "pass2" /\ f.fault.at = i
           out == OnException(path, IF faulty THEN f.fault.exc
                                    ELSE "AttributeError")
       IN IF faulty \/ ExtractRaises(f.tree, i)
          THEN /\ result' = out.result
               /\ pc' = out.pc
               /\ stack' = <<>>
               /\ elements' = elements
               /\ visited' = visited
               /\ returned' = returned
          ELSE /\ elements' = ExtractNode(f.tree, i, elements, class_names)
               /\ returned' = Written(returned, shared, elements')
               /\ visited' = Append(visited, i)
               /\ stack' = rest
               /\ pc' = IF rest = <<>> THEN "result" ELSE "extract"
               /\ result' = result
    /\ UNCHANGED <<listing, source_files, idx, lang_name, class_names, shared,
                   file_analyses, repo_elements, ret>>

\* File_parser.py:239-254
ParseFileReturn ==
    /\ pc = "result"
    /\ result' = [success |-> TRUE, language |-> lang_name,
                  file_path |-> source_files[idx],
                  elements |-> FileElements(elements)]
    /\ pc' = "aggregate"
    /\ UNCHANGED <<shared, visited, listing, source_files, idx, lang_name, class_names, stack,
                   elements, returned, file_analyses, repo_elements, ret>>

\* a loop body that keeps every result, failed or not
AggregateUnguarded ==
    /\ pc = "aggregate"
    /\ returned' = Append(returned, result)
    /\ file_analyses' = Append(file_analyses, result)
    /\ IF result.success
       THEN repo_elements' = Aggregate(repo_elements, result.elements)
       ELSE repo_elements' = repo_elements
    /\ idx' = idx + 1
    /\ pc' = IF idx < Len(source_files) THEN "parse_file" ELSE "finish"
    /\ shared' = IF result.success THEN Len(returned) + 1 ELSE shared
    /\ UNCHANGED <<visited, listing, source_files, lang_name, class_names, stack,
                   elements, result, ret>>

\* a loop that a failed file ends
AggregateStopOnFailure ==
    /\ pc = "aggregate"
    /\ returned' = Append(returned, result)
    /\ IF result.success
       THEN /\ file_analyses' = Append(file_analyses, result)
            /\ repo_elements' = Aggregate(repo_elements, result.elements)
       ELSE UNCHANGED <<file_analyses, repo_elements>>
    /\ idx' = idx + 1
    /\ pc' = IF idx < Len(source_files) /\ result.success
             THEN "parse_file" ELSE "finish"
    /\ shared' = IF result.success THEN Len(returned) + 1 ELSE shared
    /\ UNCHANGED <<visited, listing, source_files, lang_name, class_names, stack,
                   elements, result, ret>>

\* File_parser.py:293-304: the rest of the loop body, and the loop's step
AggregateResult ==
    /\ pc = "aggregate"
    /\ returned' = Append(returned, result)
    /\ IF result.success
       THEN /\ file_analyses' = Append(file_analyses, result)
            /\ repo_elements' = Aggregate(repo_elements, result.elements)
       ELSE UNCHANGED <<file_analyses, repo_elements>>
    /\ idx' = idx + 1
    /\ pc' = IF idx < Len(source_files) THEN "parse_file" ELSE "finish"
    /\ shared' = IF result.success THEN Len(returned) + 1 ELSE shared
    /\ UNCHANGED <<visited, listing, source_files, lang_name, class_names, stack,
                   elements, result, ret>>

\* File_parser.py:306-324
AnalyzeReturn ==
    /\ pc = "finish"
    /\ ret' = [success |-> TRUE, repository_url |-> "repo_url",
               total_files |-> Len(source_files),
               analyzed_files |-> Len(file_analyses),
               repository_elements |-> FinalElements(repo_elements),
               file_analyses |-> file_analyses]
    /\ pc' = "returned"
    /\ UNCHANGED <<shared, visited, listing, source_files, idx, lang_name, class_names, stack,
                   elements, result, returned, file_analyses, repo_elements>>

Next ==
    \/ CloneRepo
    \/ FindSourceFiles
    \/ ParseFileBegin
    \/ CollectStep
    \/ ExtractStep
    \/ ParseFileReturn
    \/ AggregateResult
    \/ AnalyzeReturn

Spec == Init /\ [][Next]_vars

(***************************************************************************)
(* Properties                                                              *)
(***************************************************************************)
TreeAt(path) == FileAt(path).tree

\* the node the next call of the running traversal visits, and its tree
CurTree == TreeAt(source_files[idx])
CurNode == Head(stack)

\* the results of parse_file so far that report success
Successes == {k \in 1..Len(returned) : returned[k].success}

NameBuckets(e) ==
    Range(e.identifiers) \cup Range(e.variables) \cup Range(e.functions)
    \cup Range(e.classes)

\* C1: in the result of every file that parse_file analysed with its two
\* passes, no name is both in 'classes' and in 'variables'.
C1_ClassesVariablesDisjoint ==
    \A k \in Successes :
        Range(returned[k].elements.classes)
            \cap Range(returned[k].elements.variables) = {}

\* a result whose tree has an identifier node that bears a class's name and
\* that only the set of class names keeps out of 'variables'
C1_Witness ==
    \E k \in Successes :
        LET t == TreeAt(returned[k].file_path)
        IN \E i \in 1..Len(t) :
              /\ t[i].type = "identifier"
              /\ t[i].text \in Range(returned[k].elements.classes)
              /\ _is_variable(t, i, {})

\* C2: no denylisted name is ever in 'identifiers', 'variables', 'functions'
\* or 'classes', neither while pass 2 runs nor in a file's result; and the
\* file that uses only the name print has its four name buckets empty.
C2_NoDenylistedName ==
    /\ (elements.identifiers \cup elements.variables \cup elements.functions
        \cup elements.classes) \cap std_lib_identifiers = {}
    /\ \A k \in Successes :
          /\ NameBuckets(returned[k].elements) \cap std_lib_identifiers = {}
          /\ TreeAt(returned[k].file_path) = TreeB
                => NameBuckets(returned[k].elements) = {}

\* the file that only uses print has been analysed, after a file with other
\* names
C2_Witness ==
    \E j, k \in Successes :
        /\ j < k
        /\ TreeAt(returned[k].file_path) = TreeB
        /\ NameBuckets(returned[j].elements) # {}

\* C3: a visit of pass 2 to a string node whose quote-stripped text is not
\* empty appends that text to exactly one of 'docstrings' and 'literals' and
\* leaves the other as it is; a visit to a string node whose stripped text is
\* empty leaves both as they are.
C3_StringExactlyOne ==
    [][ (pc = "extract" /\ pc' \in {"extract", "result"}
         /\ CurTree[CurNode].type \in StringTypes)
        => LET text == StripQuotes(CurTree[CurNode].text)
           IN IF text # <<>>
              THEN \/ /\ elements'.docstrings = Append(elements.docstrings, text)
                      /\ elements'.literals = elements.literals
                   \/ /\ elements'.literals = Append(elements.literals, text)
                      /\ elements'.docstrings = elements.docstrings
              ELSE /\ elements'.docstrings = elements.docstrings
                   /\ elements'.literals = elements.literals ]_vars

\* pass 2 is over for a tree with an empty string, a docstring and a string
\* that is a literal
C3_Witness ==
    /\ pc = "result"
    /\ \E i \in 1..Len(CurTree) :
          CurTree[i].type \in StringTypes /\ StripQuotes(CurTree[i].text) = <<>>
    /\ elements.docstrings = <<T_doc>>
    /\ \E i \in 1..Len(CurTree) :
          /\ CurTree[i].type \in StringTypes
          /\ StripQuotes(CurTree[i].text) # <<>>
          /\ ~_is_docstring(CurTree, CurTree[i].parent)

\* C4: two calls of parse_file on one parser instance for files of the same
\* content return the same seven buckets, the lists element for element.
C4_SameTreeSameBuckets ==
    \A j, k \in Successes :
        TreeAt(returned[j].file_path) = TreeAt(returned[k].file_path)
            => returned[j].elements = returned[k].elements

\* two files of the same content were analysed one after the other, with
\* entries in all three lists
C4_Witness ==
    \E j, k \in Successes :
        /\ j < k
        /\ TreeAt(returned[j].file_path) = TreeAt(returned[k].file_path)
        /\ returned[k].elements.identifiers # <<>>
        /\ returned[k].elements.literals # <<>>
        /\ returned[k].elements.comments # <<>>
        /\ returned[k].elements.docstrings # <<>>

\* analyze_repo has returned a repository result
Returned == pc = "returned" /\ ret.success

\* the calls of parse_file that reported a failure
Failures == {k \in 1..Len(returned) : ~returned[k].success}

\* C5: when analyze_repo returns, each of 'identifiers', 'variables',
\* 'functions', 'classes' of the repository holds exactly the names that
\* bucket holds in the result of some successfully parsed file, each once.
C5_SetBucketsAreUnions ==
    Returned =>
        \A key \in SetKeys :
            /\ Range(ret.repository_elements[key])
                 = UNION {Range(returned[k].elements[key]) : k \in Successes}
            /\ Injective(ret.repository_elements[key])

\* a repository of two parsed files that share a name and each have a name
\* the other has not
C5_Witness ==
    /\ Returned
    /\ \E j, k \in Successes :
          LET a == Range(returned[j].elements.identifiers)
              b == Range(returned[k].elements.identifiers)
          IN j < k /\ a \cap b # {} /\ a \ b # {} /\ b \ a # {}

\* the number of entries the successfully parsed files before the k-th call
\* have under a key
RECURSIVE Offset(_, _)
Offset(key, k) ==
    IF k <= 1 THEN 0
    ELSE Offset(key, k - 1)
         + (IF returned[k - 1].success THEN Len(returned[k - 1].elements[key])
            ELSE 0)

\* C6: when analyze_repo returns, each of 'literals', 'comments',
\* 'docstrings' of the repository is as long as the per-file lists together,
\* and holds each parsed file's list unchanged, duplicates included, at the
\* place after the lists of the files processed before it.
C6_ListBucketsAreConcatenations ==
    Returned =>
        \A key \in ListKeys :
            LET all == ret.repository_elements[key]
            IN /\ Len(all) = Offset(key, Len(returned) + 1)
               /\ \A k \in Successes :
                     SubSeq(all, Offset(key, k) + 1,
                            Offset(key, k) + Len(returned[k].elements[key]))
                       = returned[k].elements[key]

\* a repository of two parsed files with different comment lists, one of them
\* with the same comment twice
C6_Witness ==
    /\ Returned
    /\ \E j, k \in Successes :
          /\ j < k
          /\ returned[j].elements.comments # <<>>
          /\ returned[k].elements.comments # <<>>
          /\ returned[j].elements.comments # returned[k].elements.comments
          /\ returned[j].elements.literals # returned[k].elements.literals
    /\ ~Injective(ret.repository_elements.comments)

\* the exception a file makes parse_file raise, "" for none
ExpectedError(f) ==
    IF GetParserRaises(SplitExt(f.name)) THEN "ValueError" ELSE f.fault.exc

\* C7: no exception leaves parse_file; a file with no registered parser, a
\* file that cannot be read or parsed and a file whose traversal raises each
\* give a result with success false, the file's path and the error text;
\* and analyze_repo, when it returns, has called parse_file for every file.
C7_FailuresAreResults ==
    /\ pc # "raised"
    /\ \A k \in 1..Len(returned) :
          /\ returned[k].file_path = source_files[k]
          /\ ExpectedError(FileAt(source_files[k])) # ""
                => /\ ~returned[k].success
                   /\ returned[k].error = ExpectedError(FileAt(source_files[k]))
    /\ Returned => Len(returned) = Len(source_files)

\* a repository in which a file without parser and a file whose traversal
\* raised were followed by a file that was parsed
C7_Witness ==
    /\ Returned
    /\ \E i, j, k \in 1..Len(returned) :
          /\ i < k /\ j < k /\ returned[k].success
          /\ ~returned[i].success /\ returned[i].error = "ValueError"
          /\ ~returned[j].success
          /\ FileAt(returned[j].file_path).fault.phase = "pass2"

\* C8: the loop body leaves the repository's buckets and the list of kept
\* results as they are for a failed file; and when analyze_repo returns,
\* total_files minus analyzed_files is the number of failed files, none of
\* which is among the kept results.
C8_FailedFileContributesNothing ==
    /\ [](Returned =>
            /\ ret.total_files - ret.analyzed_files = Cardinality(Failures)
            /\ \A k \in Failures : \A j \in 1..Len(ret.file_analyses) :
                  ret.file_analyses[j].file_path # returned[k].file_path)
    /\ [][(pc = "aggregate" /\ ~result.success)
            => /\ repo_elements' = repo_elements
               /\ file_analyses' = file_analyses]_vars

\* a repository whose last file failed in the middle of pass 2, after the
\* traversal had put a name into self.elements that no parsed file has
C8_Witness ==
    /\ Returned
    /\ ret.analyzed_files >= 1
    /\ Len(returned) \in Failures
    /\ FileAt(returned[Len(returned)].file_path).fault.phase = "pass2"
    /\ elements.identifiers \ Range(ret.repository_elements.identifiers) # {}

\* C9: when analyze_repo returns, the result of every failed file, with its
\* error text, is among the results the returned value holds.
C9_ErrorTextRetained ==
    Returned =>
        \A k \in Failures :
            \E j \in 1..Len(ret.file_analyses) :
                /\ ret.file_analyses[j].file_path = returned[k].file_path
                /\ ~ret.file_analyses[j].success
                /\ ret.file_analyses[j].error = returned[k].error

ParsePlaces == {"parse_file", "collect", "extract", "result", "aggregate"}

\* C10: parse_file is called for the files in the order find_source_files
\* lists them, each once; while a file is in work every file before it has
\* returned and has been merged or dropped; and when analyze_repo returns
\* every file has a result that is either kept (once) or a failure, with
\* analyzed_files <= total_files.
C10_EveryFileOnceInOrder ==
    /\ \A k \in 1..Len(returned) : returned[k].file_path = source_files[k]
    /\ pc \in ParsePlaces
          => /\ idx \in 1..Len(source_files)
             /\ Len(returned) = idx - 1
             /\ Len(file_analyses) = Cardinality(Successes)
    /\ Returned
          => /\ Len(returned) = Len(source_files)
             /\ ret.total_files = Len(source_files)
             /\ ret.analyzed_files <= ret.total_files
             /\ \A k \in Successes :
                   Cardinality({j \in 1..Len(ret.file_analyses) :
                                   ret.file_analyses[j] = returned[k]}) = 1
             /\ Len(ret.file_analyses) = Cardinality(Successes)

\* a repository of three files whose second file failed and whose third was
\* parsed
C10_Witness ==
    /\ Returned
    /\ Len(source_files) = 3
    /\ returned[1].success /\ ~returned[2].success /\ returned[3].success
    /\ ret.analyzed_files = 2

\* the nodes of tree t whose type is in the set tys
NodesOfType(t, tys) == {i \in 1..Len(t) : t[i].type \in tys}

\* the string nodes of tree t whose text without its quotes is not empty
NonEmptyStrings(t) ==
    {i \in NodesOfType(t, StringTypes) : StripQuotes(t[i].text) # <<>>}

\* C11: pass 2 calls _extract_elements on no node twice, and when it is over
\* it has called it on every node of the tree once; 'comments' then has one
\* entry per comment node, and 'literals' and 'docstrings' together have one
\* entry per number node and one per string node of non-empty text.
C11_EachNodeOnce ==
    /\ \A k, l \in 1..Len(visited) : visited[k] = visited[l] => k = l
    /\ pc = "result" =>
          /\ \A i \in 1..Len(CurTree) :
                Cardinality({k \in 1..Len(visited) : visited[k] = i}) = 1
          /\ Len(elements.comments)
                = Cardinality(NodesOfType(CurTree, CommentTypes))
          /\ Len(elements.literals) + Len(elements.docstrings)
                = Cardinality(NodesOfType(CurTree, NumberTypes))
                  + Cardinality(NonEmptyStrings(CurTree))

\* pass 2 is over for a tree with a comment, two strings of the same text and
\* a number
C11_Witness ==
    /\ pc = "result"
    /\ NodesOfType(CurTree, CommentTypes) # {}
    /\ \E i, j \in NonEmptyStrings(CurTree) :
          i # j /\ CurTree[i].text = CurTree[j].text
    /\ NodesOfType(CurTree, NumberTypes) # {}

\* node i of tree t and the nodes above it
RECURSIVE Ancestors(_, _)
Ancestors(t, i) == IF i = 0 THEN {} ELSE {i} \cup Ancestors(t, t[i].parent)

\* the names of the classes that tree t declares: for each declaration, the
\* text of the first child of the type that bears its name
DeclaredNames(t) ==
    { t[c].text : c \in
        { c \in 1..Len(t) :
            /\ t[c].parent # 0
            /\ LET d == t[c].parent
                   ty == IF t[d].type \in {"class_definition", "class_declaration"}
                         THEN "identifier"
                         ELSE IF t[d].type \in {"class_specifier", "struct_specifier"}
                         THEN "type_identifier"
                         ELSE "none"
               IN /\ t[c].type = ty
                  /\ \A b \in 1..(c - 1) :
                        ~(t[b].parent = d /\ t[b].type = ty) } }

\* the types of the nodes that may follow a node
LaterTypes == {"function_definition", "method_definition", "identifier"}

\* trees that are tree t up to and including node i: t cut after i, and the
\* cut tree with one more node under i or under a node above i
Alternatives(t, i) ==
    LET cut == SubSeq(t, 1, i)
    IN {cut} \cup { Append(cut, [type |-> ty, text |-> T_x, parent |-> p]) :
                    ty \in LaterTypes, p \in Ancestors(t, i) }

\* the children of node i and of its parent in tree t
Near(t, i) ==
    LET own == Children(t, i)
        sib == IF t[i].parent = 0 THEN <<>> ELSE Children(t, t[i].parent)
    IN << [k \in 1..Len(own) |-> t[own[k]]], [k \in 1..Len(sib) |-> t[sib[k]]] >>

\* C12 as the specification states it: whenever pass 2 is about to classify a
\* node, every tree that is the same up to and including that node and has
\* the same set of class names gives the node the same classification.
C12_LaterNodesNeverMatter ==
    pc = "extract" =>
        LET t == CurTree
            i == CurNode
            here == ExtractNode(t, i, elements, class_names)
        IN \A alt \in Alternatives(t, i) :
              (DeclaredNames(alt) = class_names /\ ~ExtractRaises(alt, i))
              => ExtractNode(alt, i, elements, class_names) = here

\* C12, amended: whenever pass 2 is about to classify a node, every tree that
\* is the same up to and including that node, has the same set of class
\* names and gives the node and its parent the same children, gives the node
\* the same classification; the nodes visited later that are neither its
\* children nor its siblings have no effect.
C12_OnlyNearNodesMatter ==
    pc = "extract" =>
        LET t == CurTree
            i == CurNode
            near == Near(t, i)
            here == ExtractNode(t, i, elements, class_names)
        IN \A alt \in Alternatives(t, i) :
              (/\ Near(alt, i) = near
               /\ DeclaredNames(alt) = class_names
               /\ ~ExtractRaises(alt, i))
              => ExtractNode(alt, i, elements, class_names) = here

\* pass 2 is about to classify an identifier that it adds to 'variables', in
\* a tree where a function definition that is not its sibling follows
C12_Witness ==
    /\ pc = "extract"
    /\ CurTree[CurNode].type = "identifier"
    /\ _is_variable(CurTree, CurNode, class_names)
    /\ \E j \in (CurNode + 1)..Len(CurTree) :
          /\ CurTree[j].type = "function_definition"
          /\ CurTree[j].parent \notin {CurNode, CurTree[CurNode].parent}

\* the statements of node b of tree t: its children that are not comments
Statements(t, b) ==
    SelectSeq(Children(t, b), LAMBDA j : t[j].type \notin CommentTypes)

\* node i of tree t is a string of non-empty text that is the child of an
\* expression statement, which is statement number k of a body of one of the
\* types bodies, under a declaration of one of the types decls
BareStringAt(t, i, k, bodies, decls) ==
    /\ t[i].type \in StringTypes
    /\ StripQuotes(t[i].text) # <<>>
    /\ t[i].parent # 0
    /\ LET e == t[i].parent IN
       /\ t[e].type = "expression_statement"
       /\ t[e].parent # 0
       /\ LET b == t[e].parent IN
          /\ t[b].type \in bodies
          /\ t[b].parent # 0
          /\ t[t[b].parent].type \in decls
          /\ Len(Statements(t, b)) >= k
          /\ Statements(t, b)[k] = e

\* what the code takes for a class or a function declaration, and the types
\* of their bodies
DeclarationTypes ==
    {"class_definition", "class_declaration", "class_specifier",
     "struct_specifier"} \cup FunctionTypes \cup {"function_declaration"}
BodyTypes == {"block", "statement_block", "class_body"}

\* pass 2 classifies the node it visits: the step from one call of
\* _extract_elements to the next, or to the end of pass 2
Classifies == pc = "extract" /\ pc' \in {"extract", "result"}

C14_ScenarioA ==
    \A k \in Successes :
        TreeAt(returned[k].file_path) = TreeA
        => LET e == returned[k].elements IN
           /\ e.classes = <<T_Foo>>
           /\ e.functions = <<T_bar>>
           /\ e.variables = <<T_x>>
           /\ e.docstrings = <<T_doc>>
           /\ e.comments = <<T_note>>
           /\ e.literals = <<T_one>>

\* the file of scenario A has been analysed after another file that left
\* entries in the buckets
C14_Witness ==
    \E j, k \in Successes :
        /\ j < k
        /\ TreeAt(returned[k].file_path) = TreeA
        /\ TreeAt(returned[j].file_path) # TreeA
        /\ returned[j].elements.comments # <<>>

\* the node types that declare a class or a struct
ClassDeclTypes ==
    {"class_definition", "class_declaration", "class_specifier",
     "struct_specifier"}

\* the children of declaration i of tree t that are of the type that bears
\* its name
NameChildren(t, i) ==
    LET ty == IF t[i].type \in {"class_definition", "class_declaration"}
              THEN "identifier" ELSE "type_identifier"
    IN {c \in 1..Len(t) : t[c].parent = i /\ t[c].type = ty}

Min(S) == CHOOSE x \in S : \A y \in S : x <= y

\* tree t has a class or struct declaration without a child that bears its
\* name
HasNameless(t) ==
    \E d \in NodesOfType(t, ClassDeclTypes) : NameChildren(t, d) = {}

\* C15: a visit of pass 1 to a class or struct declaration adds the text of
\* the first child of the declared-name type to the set of class names, and
\* nothing when there is no such child; a visit of pass 2 to a declaration
\* without such a child leaves every bucket as it is, and with one it adds no
\* other text than the first one's to 'classes' and 'identifiers'; both passes
\* go on with the children of the declaration; and a file with a nameless
\* declaration that is read and parsed without a fault has a result of
\* success.
C15_NamelessDeclarationSkipped ==
    /\ [](\A k \in 1..Len(returned) :
            LET f == FileAt(returned[k].file_path) IN
            (HasNameless(f.tree) /\ f.fault = NoFault
             /\ SplitExt(f.name) \in DOMAIN PARSERS) => returned[k].success)
    /\ [][ (pc = "collect" /\ pc' \in {"collect", "extract"}
            /\ CurTree[CurNode].type \in ClassDeclTypes)
           => LET n == NameChildren(CurTree, CurNode) IN
              /\ class_names' = IF n = {} THEN class_names
                                ELSE class_names \cup {CurTree[Min(n)].text}
              /\ pc' = "collect"
                    => stack' = Children(CurTree, CurNode) \o Tail(stack) ]_vars
    /\ [][ (Classifies /\ CurTree[CurNode].type \in ClassDeclTypes)
           => LET n == NameChildren(CurTree, CurNode)
                  first == IF n = {} THEN {} ELSE {CurTree[Min(n)].text}
              IN
              /\ n = {} => elements' = elements
              /\ elements'.classes \subseteq elements.classes \cup first
              /\ elements'.identifiers \subseteq elements.identifiers \cup first
              /\ pc' = "extract"
                    => stack' = Children(CurTree, CurNode) \o Tail(stack) ]_vars

\* a result of success for a tree with a nameless class declaration, with no
\* class and with the name of an identifier below the declaration in
\* 'variables'
C15_Witness ==
    \E k \in Successes :
        LET t == TreeAt(returned[k].file_path) IN
        /\ returned[k].elements.classes = <<>>
        /\ \E d \in NodesOfType(t, ClassDeclTypes) :
              /\ NameChildren(t, d) = {}
              /\ \E i \in NodesOfType(t, {"identifier"}) :
                    /\ d \in Ancestors(t, i)
                    /\ t[i].text \in Range(returned[k].elements.variables)

\* the seven buckets
SevenKeys ==
    {"identifiers", "literals", "variables", "comments", "docstrings",
     "functions", "classes"}

\* C16: 'elements' of every result of success that parse_file returns, and
\* 'repository_elements' of every result of success that analyze_repo
\* returns, have the seven keys and no other, each with a list as its value.
C16_SevenKeys ==
    /\ (pc = "aggregate" /\ result.success)
          => /\ DOMAIN result.elements = SevenKeys
             /\ \A key \in SevenKeys :
                   DOMAIN result.elements[key] = 1..Len(result.elements[key])
    /\ \A k \in Successes : DOMAIN returned[k].elements = SevenKeys
    /\ Returned
          => /\ DOMAIN ret.repository_elements = SevenKeys
             /\ \A key \in SevenKeys :
                   DOMAIN ret.repository_elements[key]
                     = 1..Len(ret.repository_elements[key])

\* analyze_repo has returned for a repository whose only file is empty: the
\* seven buckets of the file and of the repository are all empty
C16_Witness ==
    /\ Returned
    /\ Len(returned) = 1
    /\ returned[1].success
    /\ TreeAt(returned[1].file_path) = TreeEmpty
    /\ \A key \in SevenKeys :
          returned[1].elements[key] = <<>> /\ ret.repository_elements[key] = <<>>

\* C17: pass 2 classifies no node before pass 1 has gone through the whole
\* tree: while pass 1 runs no node has been classified, and from the first
\* call of pass 2 on the set of class names holds the name of every class the
\* tree declares, at any place; no step of pass 2 changes the set; and no
\* name of a class that the tree declares is in 'variables'.
C17_ClassNamesCompleteBeforePass2 ==
    /\ [](pc = "collect" => visited = <<>> /\ elements = EmptyElements)
    /\ [](pc \in {"extract", "result"}
            => /\ class_names = DeclaredNames(CurTree)
               /\ elements.variables \cap DeclaredNames(CurTree) = {})
    /\ [][pc = "extract" => class_names' = class_names]_vars

\* pass 2 is over for a tree where an identifier bears the name of a class
\* that is declared after it, and only the set of class names keeps it out of
\* 'variables'
C17_Witness ==
    /\ pc = "result"
    /\ \E i \in NodesOfType(CurTree, {"identifier"}) :
          /\ \E d \in NodesOfType(CurTree, ClassDeclTypes) :
                /\ d > i
                /\ NameChildren(CurTree, d) # {}
                /\ CurTree[Min(NameChildren(CurTree, d))].text = CurTree[i].text
          /\ _is_variable(CurTree, i, {})
          /\ CurTree[i].text \notin elements.variables

\* node i of tree t has a sibling, or is itself a node, of one of the types
SiblingOfType(t, i, tys) ==
    \E j \in 1..Len(t) : t[j].parent = t[i].parent /\ t[j].type \in tys

\* the parents that the specification names as signatures, calls and import
\* clauses
SignatureTypes ==
    {"function_definition", "class_definition", "constructor_declaration",
     "constructor_or_destructor_definition", "method_definition"}
ImportTypes == {"import_statement", "import_from_statement"}

\* C18 as the specification states it: a visit of pass 2 to an identifier
\* adds its text to 'variables' if and only if the text is not denylisted and
\* not a class name, the parent is no signature, no call and no import
\* clause, and the node is not in a block that has a function or method
\* definition among its children; otherwise 'variables' stays as it is.
C18_VariableIffSixConditions ==
    [][ (Classifies /\ CurTree[CurNode].type = "identifier")
        => LET name == CurTree[CurNode].text
               pt == ParentType(CurTree, CurNode)
               cond ==
                   /\ name \notin std_lib_identifiers
                   /\ name \notin class_names
                   /\ pt \notin SignatureTypes
                   /\ pt # "call"
                   /\ pt \notin ImportTypes
                   /\ ~(pt = "block"
                        /\ SiblingOfType(CurTree, CurNode,
                               {"function_definition", "method_definition"}))
           IN elements'.variables
                = IF cond THEN elements.variables \cup {name}
                  ELSE elements.variables ]_vars

\* C18, amended: a visit of pass 2 to an identifier adds its text to
\* 'variables' if and only if the text is not denylisted, not a class name
\* and not one of __name__, __main__, __file__, this, super, the parent is no
\* function_definition, class_definition, constructor_declaration,
\* constructor_or_destructor_definition, method_definition, call or import
\* clause, and the node is neither a child of the block of a class_definition
\* that has a function_definition or method_definition child, nor a child of
\* the block of a function_definition that has a method_definition child.
C18_VariableIffCodeConditions ==
    [][ (Classifies /\ CurTree[CurNode].type = "identifier")
        => LET name == CurTree[CurNode].text
               pt == ParentType(CurTree, CurNode)
               gt == GrandParentType(CurTree, CurNode)
               cond ==
                   /\ name \notin std_lib_identifiers
                   /\ name \notin class_names
                   /\ name \notin
                        { <<"_","_","n","a","m","e","_","_">>,
                          <<"_","_","m","a","i","n","_","_">>,
                          <<"_","_","f","i","l","e","_","_">>,
                          <<"t","h","i","s">>, <<"s","u","p","e","r">> }
                   /\ pt \notin SignatureTypes
                   /\ pt # "call"
                   /\ pt \notin ImportTypes
                   /\ ~(pt = "block" /\ gt = "class_definition"
                        /\ SiblingOfType(CurTree, CurNode,
                               {"function_definition", "method_definition"}))
                   /\ ~(pt = "block" /\ gt = "function_definition"
                        /\ SiblingOfType(CurTree, CurNode, {"method_definition"}))
           IN elements'.variables
                = IF cond THEN elements.variables \cup {name}
                  ELSE elements.variables ]_vars

\* pass 2 is over for a tree where an identifier in the block of a function
\* definition has a function definition as a sibling, and its text is in
\* 'variables'
C18_Witness ==
    /\ pc = "result"
    /\ \E i \in NodesOfType(CurTree, {"identifier"}) :
          /\ ParentType(CurTree, i) = "block"
          /\ GrandParentType(CurTree, i) = "function_definition"
          /\ SiblingOfType(CurTree, i, {"function_definition"})
          /\ CurTree[i].text \in elements.variables

\* node i of tree t is the child of an expression statement that is the
\* first statement, the comments not counted, of a node b for which
\* IsTop(b) holds, or of a block under a declaration of one of the types decls
FirstStatementString(t, i, IsTop(_), decls) ==
    /\ t[i].parent # 0
    /\ LET e == t[i].parent IN
       /\ t[e].type = "expression_statement"
       /\ t[e].parent # 0
       /\ LET b == t[e].parent IN
          /\ Statements(t, b)[1] = e
          /\ \/ IsTop(b)
             \/ /\ t[b].type = "block"
                /\ t[b].parent # 0
                /\ t[t[b].parent].type \in decls

C20_IdentifierIffNotFiltered ==
    [][ (Classifies /\ CurTree[CurNode].type = "identifier")
        => LET name == CurTree[CurNode].text
               kept ==
                   /\ name \notin std_lib_identifiers
                   /\ name \notin
                        { <<"_","_","n","a","m","e","_","_">>,
                          <<"_","_","m","a","i","n","_","_">>,
                          <<"_","_","f","i","l","e","_","_">>,
                          <<"t","h","i","s">>, <<"s","u","p","e","r">> }
           IN elements'.identifiers
                = IF kept THEN elements.identifiers \cup {name}
                  ELSE elements.identifiers ]_vars

\* pass 2 is over for a tree with an identifier this and an identifier of
\* another name: the other name is in 'identifiers', this is not
C20_Witness ==
    /\ pc = "result"
    /\ \E i, k \in NodesOfType(CurTree, {"identifier"}) :
          /\ CurTree[i].text = T_this
          /\ CurTree[k].text # T_this
          /\ CurTree[k].text \in elements.identifiers
    /\ T_this \notin elements.identifiers

\* C21: a visit of pass 2 to a class or struct declaration with a child that
\* bears its name adds the name to 'classes' and to 'identifiers' when the
\* name is not denylisted, and leaves both as they are when it is; the other
\* buckets stay as they are.
C21_ClassNameInBoth ==
    [][ (Classifies /\ CurTree[CurNode].type \in ClassDeclTypes
         /\ NameChildren(CurTree, CurNode) # {})
        => LET name == CurTree[Min(NameChildren(CurTree, CurNode))].text
           IN IF name \in std_lib_identifiers
              THEN elements' = elements
              ELSE elements' = [elements EXCEPT
                                  !.classes = @ \cup {name},
                                  !.identifiers = @ \cup {name}] ]_vars

\* pass 2 is over for a tree with a class of a denylisted name: it has no
\* class, and the name is in no bucket, while other names are
C21_Witness ==
    /\ pc = "result"
    /\ \E d \in NodesOfType(CurTree, ClassDeclTypes) :
          /\ NameChildren(CurTree, d) # {}
          /\ CurTree[Min(NameChildren(CurTree, d))].text \in std_lib_identifiers
    /\ elements.classes = {}
    /\ elements.identifiers # {}
    /\ elements.identifiers \cap std_lib_identifiers = {}

\* the identifier children of node i of tree t
IdentifierChildren(t, i) ==
    {c \in 1..Len(t) : t[c].parent = i /\ t[c].type = "identifier"}

\* the function, method and constructor declarations of the rule table
FunctionDeclTypes ==
    {"function_definition", "constructor_declaration",
     "constructor_or_destructor_definition", "method_definition"}

\* C22: a visit of pass 2 to a function, method or constructor declaration
\* adds the text of its first identifier child to 'functions' and to
\* 'identifiers' if and only if there is such a child and its text is neither
\* denylisted nor __init__; otherwise, and without an identifier child, it
\* leaves every bucket as it is; nothing is raised, and the children of the
\* declaration are taken up next.
C22_FunctionNameInBoth ==
    [][ (pc = "extract" /\ CurTree[CurNode].type \in FunctionDeclTypes
         /\ FileAt(source_files[idx]).fault.phase # "pass2")
        => LET ids == IdentifierChildren(CurTree, CurNode)
               name == CurTree[Min(ids)].text
               added == /\ ids # {}
                        /\ name \notin std_lib_identifiers
                        /\ name # <<"_","_","i","n","i","t","_","_">>
           IN /\ Classifies
              /\ elements' = IF added
                             THEN [elements EXCEPT
                                     !.functions = @ \cup {name},
                                     !.identifiers = @ \cup {name}]
                             ELSE elements
              /\ pc' = "extract"
                    => stack' = Children(CurTree, CurNode) \o Tail(stack) ]_vars

\* pass 2 is over for a tree with a function named print, which is in no
\* bucket, a function without an identifier child, whose body gave a
\* variable, and a constructor, whose first identifier is in 'functions'
C22_Witness ==
    /\ pc = "result"
    /\ \E d \in NodesOfType(CurTree, FunctionDeclTypes) :
          /\ IdentifierChildren(CurTree, d) # {}
          /\ CurTree[Min(IdentifierChildren(CurTree, d))].text = T_print
    /\ \E d \in NodesOfType(CurTree, FunctionDeclTypes) :
          /\ IdentifierChildren(CurTree, d) = {}
          /\ \E i \in NodesOfType(CurTree, {"identifier"}) :
                d \in Ancestors(CurTree, i) /\ CurTree[i].text \in elements.variables
    /\ elements.functions = {T_Foo}
    /\ T_print \notin elements.identifiers

\* the text of a comment without the marker that opens it (# for Python,
\* // for the other languages) and without the blanks around the rest
WithoutMarker(s) ==
    LET rest == IF Len(s) >= 2 /\ SubSeq(s, 1, 2) = <<"/", "/">>
                THEN SubSeq(s, 3, Len(s))
                ELSE LStrip(s, {"#"})
    IN Strip(rest, Whitespace)

\* C23: a visit of pass 2 to a comment appends one entry to 'comments', the
\* text of the comment without its leading marker, whether or not the same
\* text is there already, and leaves the other buckets as they are.
C23_CommentWithoutMarker ==
    [][ (Classifies /\ CurTree[CurNode].type \in CommentTypes)
        => elements' = [elements EXCEPT
                          !.comments =
                              Append(@, WithoutMarker(CurTree[CurNode].text))]
      ]_vars

\* C24: a visit of pass 2 to a number appends the text of the node, character
\* for character, as one entry to 'literals', and leaves the other buckets as
\* they are.
C24_NumberVerbatim ==
    [][ (Classifies /\ CurTree[CurNode].type \in NumberTypes)
        => /\ Len(elements'.literals) = Len(elements.literals) + 1
           /\ \A k \in 1..Len(elements.literals) :
                 elements'.literals[k] = elements.literals[k]
           /\ elements'.literals[Len(elements'.literals)] = CurTree[CurNode].text
           /\ \A key \in SevenKeys \ {"literals"} :
                 elements'[key] = elements[key] ]_vars

\* pass 2 is over for a tree with a float written with a trailing point, and
\* 'literals' ends with that text
C24_Witness ==
    /\ pc = "result"
    /\ \E i \in NodesOfType(CurTree, {"float"}) :
          /\ CurTree[i].text[Len(CurTree[i].text)] = "."
          /\ elements.literals # <<>>
          /\ elements.literals[Len(elements.literals)] = CurTree[i].text

\* what node i of tree t gives to the list bucket key: one entry or none
Entry(t, i, key) ==
    IF key = "comments"
    THEN IF t[i].type \in CommentTypes THEN <<StripComment(t[i].text)>> ELSE <<>>
    ELSE IF t[i].type \in NumberTypes
    THEN IF key = "literals" THEN <<t[i].text>> ELSE <<>>
    ELSE IF i \in NonEmptyStrings(t)
    THEN IF (key = "docstrings") = _is_docstring(t, t[i].parent)
         THEN <<StripQuotes(t[i].text)>> ELSE <<>>
    ELSE <<>>

\* the entries the nodes i, i + 1, ... of tree t give to a bucket, in the
\* order of the nodes; the nodes of a tree are numbered in pre-order
RECURSIVE InPreOrder(_, _, _)
InPreOrder(t, i, key) ==
    IF i > Len(t) THEN <<>> ELSE Entry(t, i, key) \o InPreOrder(t, i + 1, key)

\* C25: pass 2 visits the nodes in pre-order, and when it is over each of
\* 'literals', 'comments' and 'docstrings' holds the entries of its nodes in
\* that order, one per contributing node, equal ones included.
C25_ListsInPreOrder ==
    /\ \A k \in 1..Len(visited) : visited[k] = k
    /\ pc = "result"
          => \A key \in ListKeys : elements[key] = InPreOrder(CurTree, 1, key)

\* pass 2 is over for a tree that gave 'literals' the same text twice and
\* then another one
C25_Witness ==
    /\ pc = "result"
    /\ Len(elements.literals) >= 3
    /\ elements.literals[1] = elements.literals[2]
    /\ elements.literals[2] # elements.literals[3]

\* the node types that a rule of pass 2 names
RuleTypes ==
    ClassDeclTypes \cup FunctionDeclTypes \cup {"identifier"}
    \cup {"string_literal", "string"} \cup {"number_literal", "integer", "float"}
    \cup {"comment", "line_comment"}

\* C26: a visit of pass 2 to a node of a type that no rule names raises
\* nothing, leaves the seven buckets as they are and takes up the children of
\* the node next, the first child at once; and when pass 2 is over every node
\* below such a node has been classified.
C26_UnknownTypeTraversed ==
    /\ [][ (pc = "extract" /\ CurTree[CurNode].type \notin RuleTypes
            /\ FileAt(source_files[idx]).fault.phase # "pass2")
           => /\ Classifies
              /\ elements' = elements
              /\ pc' = "extract"
                    => /\ stack' = Children(CurTree, CurNode) \o Tail(stack)
                       /\ \A c \in 1..Len(CurTree) :
                             (CurTree[c].parent = CurNode
                              /\ \A b \in 1..(c - 1) : CurTree[b].parent # CurNode)
                             => Head(stack') = c ]_vars
    /\ [](pc = "result"
            => \A i \in 1..Len(CurTree) :
                  (\E a \in Ancestors(CurTree, i) \ {i} :
                      CurTree[a].type \notin RuleTypes)
                  => \E k \in 1..Len(visited) : visited[k] = i)

\* pass 2 is over for a tree with a leaf of a type no rule names, whose text
\* is in no bucket, and with an identifier below an inner node of such a type
\* (other than the root), whose text is in 'variables'
C26_Witness ==
    /\ pc = "result"
    /\ \E u \in 1..Len(CurTree) :
          /\ CurTree[u].type \notin RuleTypes
          /\ CurTree[u].text # <<>>
          /\ CurTree[u].text \notin elements.identifiers
    /\ \E u \in 2..Len(CurTree) :
          /\ CurTree[u].type \notin RuleTypes
          /\ \E i \in NodesOfType(CurTree, {"identifier"}) :
                /\ CurTree[i].parent = u
                /\ CurTree[i].text \in elements.variables

\* C27: while pass 2 runs and in every result that parse_file returns, each
\* name in 'variables', in 'functions' and in 'classes' is in 'identifiers'
\* too.
C27_NameBucketsWithinIdentifiers ==
    /\ pc \in {"extract", "result"}
          => /\ elements.variables \subseteq elements.identifiers
             /\ elements.functions \subseteq elements.identifiers
             /\ elements.classes \subseteq elements.identifiers
    /\ (pc = "aggregate" /\ result.success)
          => LET e == result.elements IN
             /\ Range(e.variables) \subseteq Range(e.identifiers)
             /\ Range(e.functions) \subseteq Range(e.identifiers)
             /\ Range(e.classes) \subseteq Range(e.identifiers)

\* a result with a variable, a function and a class, each of another name
C27_Witness ==
    \E k \in Successes :
        LET e == returned[k].elements IN
        /\ e.variables # <<>> /\ e.functions # <<>> /\ e.classes # <<>>
        /\ Len(e.identifiers) >= 3
        /\ Range(e.variables) \cap Range(e.functions) = {}
        /\ Range(e.classes) \cap Range(e.functions) = {}

\* the five reserved words
ReservedWords ==
    { <<"_","_","n","a","m","e","_","_">>, <<"_","_","m","a","i","n","_","_">>,
      <<"_","_","f","i","l","e","_","_">>, <<"t","h","i","s">>,
      <<"s","u","p","e","r">> }

\* the names that the function, method and constructor declarations of tree
\* t bear: the text of the first identifier child of each
FunctionNames(t) ==
    { t[Min(IdentifierChildren(t, d))].text :
        d \in {d \in NodesOfType(t, FunctionDeclTypes) :
                 IdentifierChildren(t, d) # {}} }

\* C28 as the specification states it: when pass 2 is over, and in every
\* result that parse_file returns, no reserved word is in 'identifiers' or 'variables'.
C28_NoReservedName ==
    /\ pc = "result"
          => (elements.identifiers \cup elements.variables) \cap ReservedWords = {}
    /\ (pc = "aggregate" /\ result.success)
          => (Range(result.elements.identifiers)
              \cup Range(result.elements.variables)) \cap ReservedWords = {}

\* C28, amended: when pass 2 is over, and in every result that parse_file
\* returns, no reserved word is in 'variables', and a reserved word is in 'identifiers'
\* only when a class or function declaration of the file bears it as its
\* name.
C28_ReservedOnlyAsDeclaredName ==
    /\ pc = "result"
          => /\ elements.variables \cap ReservedWords = {}
             /\ elements.identifiers \cap ReservedWords
                  \subseteq DeclaredNames(CurTree) \cup FunctionNames(CurTree)
    /\ (pc = "aggregate" /\ result.success)
          => /\ Range(result.elements.variables) \cap ReservedWords = {}
             /\ Range(result.elements.identifiers) \cap ReservedWords
                  \subseteq DeclaredNames(CurTree) \cup FunctionNames(CurTree)

\* pass 2 is over for a tree with a method named this and a use of the
\* identifier this at another place: this is in 'identifiers' and in
\* 'functions', and not in 'variables'
C28_Witness ==
    /\ pc = "result"
    /\ T_this \in FunctionNames(CurTree)
    /\ \E i \in NodesOfType(CurTree, {"identifier"}) :
          /\ CurTree[i].text = T_this
          /\ CurTree[CurTree[i].parent].type \notin FunctionDeclTypes
    /\ T_this \in elements.identifiers
    /\ T_this \in elements.functions
    /\ T_this \notin elements.variables

\* pass 2 from node i of tree t on, on the buckets el, the nodes taken in
\* pre-order
RECURSIVE FromNode(_, _, _, _)
FromNode(t, i, el, cn) ==
    IF i > Len(t) THEN el
    ELSE FromNode(t, i + 1, ExtractNode(t, i, el, cn), cn)

\* what parse_file returns for file f on a parser that has parsed no file
OnFreshParser(f) ==
    IF ExpectedError(f) # ""
    THEN [success |-> FALSE, file_path |-> PathOf(f), error |-> ExpectedError(f)]
    ELSE [success |-> TRUE, language |-> PARSERS[SplitExt(f.name)],
          file_path |-> PathOf(f),
          elements |-> FileElements(FromNode(f.tree, 1, EmptyElements,
                                             DeclaredNames(f.tree)))]

\* C29: whatever files the parser has parsed before, with or without
\* success, parse_file returns for a file what a parser that has parsed no
\* file returns for it; and no step of a later call changes a result that
\* parse_file has returned.
C29_FileAnalysesIndependent ==
    /\ [](pc = "aggregate" => result = OnFreshParser(FileAt(source_files[idx])))
    /\ [][\A k \in 1..Len(returned) : returned'[k] = returned[k]]_vars

\* three calls on one parser: a file that filled the lists, a file whose
\* pass 2 broke off, and a file that was parsed
C29_Witness ==
    /\ Len(returned) = 3
    /\ returned[1].success
    /\ returned[1].elements.literals # <<>>
    /\ returned[1].elements.comments # <<>>
    /\ ~returned[2].success
    /\ FileAt(returned[2].file_path).fault.phase = "pass2"
    /\ returned[3].success

\* C30: for every path that find_source_files has selected, get_parser does
\* not raise for the extension that parse_file takes from the path.
C30_SelectedFilesDispatch ==
    \A k \in 1..Len(source_files) :
        SplitExt(source_files[k].name) \in DOMAIN PARSERS

====
